---- MODULE Spec2Model ----
(***************************************************************************)
(* The process scheduler of dettrace (src/scheduler.cpp): the four         *)
(* collections of pids, the transition calls and the queries, each         *)
(* translated from its C++ body.                                           *)
(*                                                                         *)
(* std::queue<pid_t>::front() and pop() have no defined behaviour on an    *)
(* empty queue.  Where the code calls them without an emptiness check the  *)
(* model takes every outcome a build can show: front() yields an           *)
(* unspecified value, pop() leaves a queue of unspecified content, and a   *)
(* build with container assertions aborts the process.                     *)
(***************************************************************************)
EXTENDS Integers, Sequences, FiniteSets, TLC

\* Pids handed to the scheduler are 1..MaxPid.
MaxPid == 2
\* Longest queue the model lets a push build.
MaxQueue == 2
\* Pids of the round-robin specification SpecRR.
MaxRRPid == 4

\* The value getNextRunnable / getNextBlocked return for an empty queue.
NoPid == -1

Pids == 1..MaxPid
RRPids == 1..MaxRRPid

VARIABLES
  startingPid,        \* scheduler::startingPid
  parallelProcesses,  \* set<pid_t>
  runnableQueue,      \* queue<pid_t>, front is element 1
  blockedQueue,       \* queue<pid_t>, front is element 1
  finishedProcesses,  \* set<pid_t>
  pre,                \* the four collections as they were when the last call began
  last,               \* the last call: its name, argument, how it ended, what it returned
  ubFree,             \* no call so far executed front()/pop() on an empty queue
  rrOrig,             \* SpecRR: Blocked when the round of retries began
  rrFronts            \* SpecRR: the pids the retries of the round targeted, in order

sched == <<startingPid, parallelProcesses, runnableQueue, blockedQueue, finishedProcesses>>
rr == <<rrOrig, rrFronts>>
vars == <<startingPid, parallelProcesses, runnableQueue, blockedQueue,
          finishedProcesses, pre, last, ubFree, rrOrig, rrFronts>>

\* The four collections of the scheduler object.
State ==
  [parallel |-> parallelProcesses, runnable |-> runnableQueue,
   blocked |-> blockedQueue, finished |-> finishedProcesses]

\* Sequences over S of length at most n.
SeqsUpTo(S, n) == UNION {[1..k -> S] : k \in 0..n}

\* The elements of a queue.
Elems(q) == {q[i] : i \in 1..Len(q)}

\* What a read of uninitialised or stale queue storage can yield: a pid or
\* some other integer.
GarbageValues == Pids \cup {0}

\* What an empty queue can hold after pop() was called on it.
UBQueues == SeqsUpTo(Pids, MaxQueue)

\* queue::front(): the values the call can yield.
Front(q) == IF q = <<>> THEN GarbageValues ELSE {Head(q)}

\* queue::pop(): the queues the call can leave.
Pop(q) == IF q = <<>> THEN UBQueues ELSE {Tail(q)}

\* The process runs until a call aborts it.
Running == last.status # "abort"

\* Bookkeeping of a call that returned or threw.
CallRecord(op, pid, status, bool, num, defined) ==
  /\ Running
  /\ pre' = State
  /\ last' = [op |-> op, pid |-> pid, status |-> status, bool |-> bool, num |-> num]
  /\ ubFree' = (ubFree /\ defined)
  /\ UNCHANGED startingPid

\* A build with container assertions ends the process at the undefined call.
AbortRecord(op, pid) ==
  /\ Running
  /\ pre' = State
  /\ last' = [op |-> op, pid |-> pid, status |-> "abort", bool |-> FALSE, num |-> 0]
  /\ ubFree' = FALSE
  /\ UNCHANGED sched

\* A call of the control loop outside a retry round returned or threw.
Call(op, pid, status, bool, num, defined) ==
  CallRecord(op, pid, status, bool, num, defined) /\ UNCHANGED rr

\* A call of the control loop outside a retry round aborted.
Abort(op, pid) == AbortRecord(op, pid) /\ UNCHANGED rr

\* scheduler::scheduler(startingPid, log)
Init ==
  /\ startingPid \in Pids
  /\ parallelProcesses = {startingPid}
  /\ runnableQueue = <<>>
  /\ blockedQueue = <<>>
  /\ finishedProcesses = {}
  /\ pre = [parallel |-> {startingPid}, runnable |-> <<>>, blocked |-> <<>>, finished |-> {}]
  /\ last = [op |-> "scheduler", pid |-> startingPid, status |-> "ok", bool |-> FALSE, num |-> 0]
  /\ ubFree = TRUE
  /\ rrOrig = <<>>
  /\ rrFronts = <<>>

\* resumeRetry without its push: the retried pid leaves Blocked.
resumeRetryBlocked_NoPush(q, pid) == Tail(q)

\* resumeRetry re-inserting the pid second in line instead of last.
resumeRetryBlocked_Swap(q, pid) ==
  IF Len(q) >= 3 THEN <<q[2], pid>> \o SubSeq(q, 3, Len(q)) ELSE Append(Tail(q), pid)

\* Lines 62-63 of resumeRetry on a non-empty queue: pop(), then push(pid).
resumeRetryBlocked(q, pid) == Append(Tail(q), pid)

\* void scheduler::resumeRetry(pid_t pid): its effect on the scheduler.
resumeRetryCall(pid) ==
  \/ \E f \in Front(blockedQueue) :
       IF f # pid
       THEN /\ UNCHANGED <<parallelProcesses, runnableQueue, blockedQueue, finishedProcesses>>
            /\ CallRecord("resumeRetry", pid, "throw", FALSE, 0, blockedQueue # <<>>)
       ELSE /\ IF blockedQueue = <<>>
               THEN blockedQueue' \in UBQueues
               ELSE blockedQueue' = resumeRetryBlocked(blockedQueue, pid)
            /\ UNCHANGED <<parallelProcesses, runnableQueue, finishedProcesses>>
            /\ CallRecord("resumeRetry", pid, "ok", FALSE, 0, blockedQueue # <<>>)
  \/ /\ blockedQueue = <<>>
     /\ AbortRecord("resumeRetry", pid)

\* void scheduler::resumeRetry(pid_t pid), called by the control loop.
resumeRetry(pid) == resumeRetryCall(pid) /\ UNCHANGED rr

\* preemptSyscall putting the preempted pid ahead of the pids already blocked.
preemptSyscall_PushFront(pid) ==
  \/ \E frontPid \in Front(runnableQueue) :
       IF frontPid # pid
       THEN /\ UNCHANGED <<parallelProcesses, runnableQueue, blockedQueue, finishedProcesses>>
            /\ Call("preemptSyscall", pid, "throw", FALSE, 0, runnableQueue # <<>>)
       ELSE /\ Len(blockedQueue) < MaxQueue
            /\ runnableQueue' \in Pop(runnableQueue)
            /\ blockedQueue' = <<pid>> \o blockedQueue
            /\ UNCHANGED <<parallelProcesses, finishedProcesses>>
            /\ Call("preemptSyscall", pid, "ok", FALSE, 0, runnableQueue # <<>>)
  \/ /\ runnableQueue = <<>>
     /\ Abort("preemptSyscall", pid)

\* void scheduler::preemptSyscall(pid_t pid)
preemptSyscall(pid) ==
  \/ \E frontPid \in Front(runnableQueue) :
       IF frontPid # pid
       THEN /\ UNCHANGED <<parallelProcesses, runnableQueue, blockedQueue, finishedProcesses>>
            /\ Call("preemptSyscall", pid, "throw", FALSE, 0, runnableQueue # <<>>)
       ELSE /\ Len(blockedQueue) < MaxQueue
            /\ runnableQueue' \in Pop(runnableQueue)
            /\ blockedQueue' = Append(blockedQueue, pid)
            /\ UNCHANGED <<parallelProcesses, finishedProcesses>>
            /\ Call("preemptSyscall", pid, "ok", FALSE, 0, runnableQueue # <<>>)
  \/ /\ runnableQueue = <<>>
     /\ Abort("preemptSyscall", pid)

\* void scheduler::resumeParallel(pid_t pid)
resumeParallel(pid) ==
  \/ \E frontBlocked \in Front(blockedQueue), frontRunnable \in Front(runnableQueue) :
       LET defined == blockedQueue # <<>> /\ runnableQueue # <<>> IN
       IF frontBlocked = pid
       THEN /\ blockedQueue' \in Pop(blockedQueue)
            /\ parallelProcesses' = parallelProcesses \cup {pid}
            /\ UNCHANGED <<runnableQueue, finishedProcesses>>
            /\ Call("resumeParallel", pid, "ok", FALSE, 0, defined)
       ELSE IF frontRunnable = pid
       THEN /\ runnableQueue' \in Pop(runnableQueue)
            /\ parallelProcesses' = parallelProcesses \cup {pid}
            /\ UNCHANGED <<blockedQueue, finishedProcesses>>
            /\ Call("resumeParallel", pid, "ok", FALSE, 0, defined)
       ELSE /\ UNCHANGED <<parallelProcesses, runnableQueue, blockedQueue, finishedProcesses>>
            /\ Call("resumeParallel", pid, "throw", FALSE, 0, defined)
  \/ /\ blockedQueue = <<>> \/ runnableQueue = <<>>
     /\ Abort("resumeParallel", pid)

\* void scheduler::addToParallelSet(pid_t newProcess)
addToParallelSet(newProcess) ==
  /\ parallelProcesses' = parallelProcesses \cup {newProcess}
  /\ UNCHANGED <<runnableQueue, blockedQueue, finishedProcesses>>
  /\ Call("addToParallelSet", newProcess, "ok", FALSE, 0, TRUE)

\* addToRunnableQueue putting the pid ahead of the pids already runnable.
addToRunnableQueue_PushFront(pid) ==
  /\ Len(runnableQueue) < MaxQueue
  /\ parallelProcesses' = parallelProcesses \ {pid}
  /\ runnableQueue' = <<pid>> \o runnableQueue
  /\ UNCHANGED <<blockedQueue, finishedProcesses>>
  /\ Call("addToRunnableQueue", pid, "ok", FALSE, 0, TRUE)

\* void scheduler::addToRunnableQueue(pid_t pid)
addToRunnableQueue(pid) ==
  /\ Len(runnableQueue) < MaxQueue
  /\ parallelProcesses' = parallelProcesses \ {pid}
  /\ runnableQueue' = Append(runnableQueue, pid)
  /\ UNCHANGED <<blockedQueue, finishedProcesses>>
  /\ Call("addToRunnableQueue", pid, "ok", FALSE, 0, TRUE)

\* The scan-and-rebuild of removeFromScheduler (lines 138-156 for Blocked,
\* 159-177 for Runnable): pop fronts into temp until one equals pid, drop
\* that one, move the rest behind temp; temp is the new queue.
RECURSIVE removeScan(_, _, _)
removeScan(queue, temp, pid) ==
  IF queue = <<>> THEN temp
  ELSE LET frontPid == Head(queue) IN
       IF frontPid = pid THEN temp \o Tail(queue)
       ELSE removeScan(Tail(queue), Append(temp, frontPid), pid)

\* void scheduler::removeFromScheduler(pid_t pid)
removeFromScheduler(pid) ==
  /\ parallelProcesses' = parallelProcesses \ {pid}
  /\ blockedQueue' = removeScan(blockedQueue, <<>>, pid)
  /\ runnableQueue' = removeScan(runnableQueue, <<>>, pid)
  /\ finishedProcesses' = finishedProcesses \cup {pid}
  /\ Call("removeFromScheduler", pid, "ok", FALSE, 0, TRUE)

\* The Blocked scan of isAlive (lines 79-92).  Each pass pops the front; a
\* front other than pid is followed by a second pop() (line 89) before the
\* front goes to blockedTemp, so the element behind it is discarded, and on
\* a queue the first pop emptied that second pop is undefined (ub).
RECURSIVE isAliveBlockedScan(_, _, _)
isAliveBlockedScan(queue, temp, pid) ==
  IF queue = <<>>
  THEN [queue |-> queue, temp |-> temp, found |-> FALSE, ub |-> FALSE]
  ELSE LET frontPid == Head(queue)
           popped == Tail(queue)
       IN  IF frontPid = pid
           THEN [queue |-> popped, temp |-> temp, found |-> TRUE, ub |-> FALSE]
           ELSE IF popped = <<>>
           THEN [queue |-> popped, temp |-> Append(temp, frontPid),
                 found |-> FALSE, ub |-> TRUE]
           ELSE isAliveBlockedScan(Tail(popped), Append(temp, frontPid), pid)

\* The Runnable scan of isAlive (lines 101-113): a front equal to pid stays
\* in the queue, any other front moves to runnableTemp.
RECURSIVE isAliveRunnableScan(_, _, _)
isAliveRunnableScan(queue, temp, pid) ==
  IF queue = <<>>
  THEN [queue |-> queue, temp |-> temp, found |-> FALSE]
  ELSE LET frontPid == Head(queue) IN
       IF frontPid = pid
       THEN [queue |-> queue, temp |-> temp, found |-> TRUE]
       ELSE isAliveRunnableScan(Tail(queue), Append(temp, frontPid), pid)

\* The drain loops (lines 94-99, 115-120, 151-156, 172-177): what is left
\* of the queue goes behind temp, and temp becomes the queue.
Drain(queue, temp) == temp \o queue

\* bool scheduler::isAlive(pid_t pid)
isAlive(pid) ==
  IF pid \in parallelProcesses
  THEN /\ UNCHANGED <<parallelProcesses, runnableQueue, blockedQueue, finishedProcesses>>
       /\ Call("isAlive", pid, "ok", TRUE, 0, TRUE)
  ELSE LET b == isAliveBlockedScan(blockedQueue, <<>>, pid)
           r == isAliveRunnableScan(runnableQueue, <<>>, pid)
       IN  \/ /\ ~b.ub
              /\ blockedQueue' = Drain(b.queue, b.temp)
              /\ runnableQueue' = Drain(r.queue, r.temp)
              /\ UNCHANGED <<parallelProcesses, finishedProcesses>>
              /\ Call("isAlive", pid, "ok", b.found \/ r.found, 0, TRUE)
           \/ /\ b.ub
              /\ blockedQueue' \in UBQueues
              /\ runnableQueue' = Drain(r.queue, r.temp)
              /\ UNCHANGED <<parallelProcesses, finishedProcesses>>
              /\ \E found \in BOOLEAN :
                   Call("isAlive", pid, "ok", found \/ r.found, 0, FALSE)
           \/ /\ b.ub
              /\ Abort("isAlive", pid)

\* What a query that only reads does to the scheduler: nothing is assigned.
ReadOnly == UNCHANGED <<parallelProcesses, runnableQueue, blockedQueue, finishedProcesses>>

\* pid_t scheduler::getStartingPid()
getStartingPid ==
  /\ ReadOnly
  /\ Call("getStartingPid", NoPid, "ok", FALSE, startingPid, TRUE)

\* bool scheduler::isInParallel(pid_t process)
isInParallel(process) ==
  /\ ReadOnly
  /\ Call("isInParallel", process, "ok", process \in parallelProcesses, 0, TRUE)

\* bool scheduler::isFinished(pid_t process)
isFinished(process) ==
  /\ ReadOnly
  /\ Call("isFinished", process, "ok", process \in finishedProcesses, 0, TRUE)

\* emptyScheduler also asking for an empty Finished.
emptyScheduler_CountsFinished ==
  /\ ReadOnly
  /\ Call("emptyScheduler", NoPid, "ok",
          runnableQueue = <<>> /\ blockedQueue = <<>> /\ parallelProcesses = {}
            /\ finishedProcesses = {}, 0, TRUE)

\* bool scheduler::emptyScheduler()
emptyScheduler ==
  /\ ReadOnly
  /\ Call("emptyScheduler", NoPid, "ok",
          runnableQueue = <<>> /\ blockedQueue = <<>> /\ parallelProcesses = {}, 0, TRUE)

\* int scheduler::numberBlocked()
numberBlocked ==
  /\ ReadOnly
  /\ Call("numberBlocked", NoPid, "ok", FALSE, Len(blockedQueue), TRUE)

\* int scheduler::numberRunnable()
numberRunnable ==
  /\ ReadOnly
  /\ Call("numberRunnable", NoPid, "ok", FALSE, Len(runnableQueue), TRUE)

\* getNextRunnable / getNextBlocked answering an empty queue with pid 0.
NextOf_Zero(q) == IF q # <<>> THEN Head(q) ELSE 0

\* The value of getNextRunnable() / getNextBlocked() on queue q.
NextOf(q) == IF q # <<>> THEN Head(q) ELSE NoPid

\* pid_t scheduler::getNextRunnable()
getNextRunnable ==
  /\ ReadOnly
  /\ Call("getNextRunnable", NoPid, "ok", FALSE, NextOf(runnableQueue), TRUE)

\* pid_t scheduler::getNextBlocked()
getNextBlocked ==
  /\ ReadOnly
  /\ Call("getNextBlocked", NoPid, "ok", FALSE, NextOf(blockedQueue), TRUE)

\* The print loops of printProcesses (lines 225-229, 235-239): the front of
\* the copy is logged and popped until the copy is empty.
RECURSIVE printDrain(_, _)
printDrain(copy, printed) ==
  IF copy = <<>> THEN printed
  ELSE printDrain(Tail(copy), Append(printed, Head(copy)))

\* printProcesses draining the member queue itself instead of a copy.
printQueue_NoCopy(queue) == [queue |-> <<>>, printed |-> printDrain(queue, <<>>)]

\* Lines 224-229 and 234-239: the queue is copied, the copy is drained; the
\* member queue it leaves and the pids it logs.
printQueue(queue) == [queue |-> queue, printed |-> printDrain(queue, <<>>)]

\* void scheduler::printProcesses(): the set is iterated, the queues are
\* copied and the copies drained; num is the count of pids logged.
printProcesses ==
  LET r == printQueue(runnableQueue)
      b == printQueue(blockedQueue)
  IN  /\ runnableQueue' = r.queue
      /\ blockedQueue' = b.queue
      /\ UNCHANGED <<parallelProcesses, finishedProcesses>>
      /\ Call("printProcesses", NoPid, "ok", FALSE,
              Cardinality(parallelProcesses) + Len(r.printed) + Len(b.printed), TRUE)

\* The calls that move pids between the collections.
TransitionOps ==
  {"addToParallelSet", "addToRunnableQueue", "preemptSyscall",
   "resumeRetry", "resumeParallel", "removeFromScheduler"}

\* The control loop calls any operation with any pid.
Next ==
  \/ \E pid \in Pids : addToParallelSet(pid)
  \/ \E pid \in Pids : addToRunnableQueue(pid)
  \/ \E pid \in Pids : preemptSyscall(pid)
  \/ \E pid \in Pids : resumeRetry(pid)
  \/ \E pid \in Pids : resumeParallel(pid)
  \/ \E pid \in Pids : removeFromScheduler(pid)
  \/ \E pid \in Pids : isAlive(pid)
  \/ \E pid \in Pids : isInParallel(pid)
  \/ \E pid \in Pids : isFinished(pid)
  \/ emptyScheduler
  \/ numberBlocked
  \/ numberRunnable
  \/ getNextRunnable
  \/ getNextBlocked
  \/ getStartingPid
  \/ printProcesses

Spec == Init /\ [][Next]_vars

\* Sequences over S without a repeated element, of length 1 to n.
DistinctSeqs(S, n) ==
  {q \in SeqsUpTo(S, n) : q # <<>> /\ \A i, j \in 1..Len(q) : q[i] = q[j] => i = j}

\* A scheduler whose Blocked queue holds n >= 1 distinct pids and whose other
\* live collections are empty: every tracked process was preempted in turn,
\* the last of them by the call recorded in last.
InitRR ==
  /\ startingPid \in RRPids
  /\ parallelProcesses = {}
  /\ runnableQueue = <<>>
  /\ blockedQueue \in DistinctSeqs(RRPids, MaxRRPid)
  /\ finishedProcesses = {}
  /\ LET n == Len(blockedQueue) IN
       /\ pre = [parallel |-> {}, runnable |-> <<blockedQueue[n]>>,
                 blocked |-> SubSeq(blockedQueue, 1, n - 1), finished |-> {}]
       /\ last = [op |-> "preemptSyscall", pid |-> blockedQueue[n], status |-> "ok",
                  bool |-> FALSE, num |-> 0]
  /\ ubFree = TRUE
  /\ rrOrig = blockedQueue
  /\ rrFronts = <<>>

\* The control loop's retry round: resumeRetry(getNextBlocked()), nothing
\* else in between, for one call more than there are blocked pids.
RetryNextBlocked ==
  /\ Len(rrFronts) <= Len(rrOrig)
  /\ resumeRetryCall(NextOf(blockedQueue))
  /\ rrFronts' = Append(rrFronts, NextOf(blockedQueue))
  /\ rrOrig' = rrOrig

NextRR == RetryNextBlocked

SpecRR == InitRR /\ [][NextRR]_vars

(***************************************************************************)
(* Properties.  Each is stated over the last call (last), the collections  *)
(* as that call found them (pre) and as it left them (State).              *)
(***************************************************************************)

\* pid is in Parallel, Runnable or Blocked of the collections st.
Live(st, pid) ==
  pid \in st.parallel \/ pid \in Elems(st.runnable) \/ pid \in Elems(st.blocked)

\* pid is the front of queue q.
IsFront(q, pid) == q # <<>> /\ Head(q) = pid

\* The names of the queries.
QueryOps ==
  {"isAlive", "isInParallel", "isFinished", "numberBlocked", "numberRunnable",
   "getNextRunnable", "getNextBlocked", "emptyScheduler", "getStartingPid"}

\* q with its front moved to the back.
RotateLeft(q) == [i \in 1..Len(q) |-> q[(i % Len(q)) + 1]]

\* C1: as long as every call so far had defined behaviour, no pid is in more
\* than one of Parallel, Runnable and Blocked.
C1_Disjointness ==
  ubFree =>
    \A pid \in Pids :
      /\ ~(pid \in parallelProcesses /\ pid \in Elems(runnableQueue))
      /\ ~(pid \in parallelProcesses /\ pid \in Elems(blockedQueue))
      /\ ~(pid \in Elems(runnableQueue) /\ pid \in Elems(blockedQueue))

\* C2: a pid that was in Finished and in no live collection when a transition
\* call began is in no live collection when the call has returned.
C2_FinishedPermanence ==
  (ubFree /\ last.op \in TransitionOps) =>
    \A pid \in pre.finished : ~Live(pre, pid) => ~Live(State, pid)

\* C3: preemptSyscall(pid) with pid not the front of Runnable (Runnable empty
\* included) throws and leaves the four collections as they were.
C3_PreemptRejection ==
  (last.op = "preemptSyscall" /\ ~IsFront(pre.runnable, last.pid)) =>
    (last.status = "throw" /\ State = pre)

\* C4: a query leaves the four collections, queue order included, as they were.
C4_QueriesPure ==
  (ubFree /\ last.op \in QueryOps) => State = pre

\* C5: isAlive(pid) returns true exactly when pid is in Parallel or anywhere
\* in Blocked or anywhere in Runnable.
C5_IsAliveResult ==
  (ubFree /\ last.op = "isAlive") =>
    (last.status = "ok" /\ last.bool = Live(pre, last.pid))

\* C6: resumeParallel(pid) with pid the front of Blocked or of Runnable
\* succeeds, pops that front, inserts pid into Parallel and leaves the other
\* queue and Finished as they were.
C6_ResumeParallelSuccess ==
  (/\ last.op = "resumeParallel"
   /\ IsFront(pre.blocked, last.pid) \/ IsFront(pre.runnable, last.pid)) =>
    /\ last.status = "ok"
    /\ parallelProcesses = pre.parallel \cup {last.pid}
    /\ finishedProcesses = pre.finished
    /\ IF IsFront(pre.blocked, last.pid)
       THEN blockedQueue = Tail(pre.blocked) /\ runnableQueue = pre.runnable
       ELSE runnableQueue = Tail(pre.runnable) /\ blockedQueue = pre.blocked

\* C7: resumeParallel(pid) with pid the front of neither queue (both empty
\* included) throws and leaves the four collections as they were.
C7_ResumeParallelRejection ==
  (/\ last.op = "resumeParallel"
   /\ ~IsFront(pre.blocked, last.pid)
   /\ ~IsFront(pre.runnable, last.pid)) =>
    (last.status = "throw" /\ State = pre)

\* C8: resumeRetry(pid) with pid the front of a non-empty Blocked succeeds,
\* leaves Blocked rotated left by one and the other collections as they were.
C8_ResumeRetryRotation ==
  (last.op = "resumeRetry" /\ IsFront(pre.blocked, last.pid)) =>
    /\ last.status = "ok"
    /\ blockedQueue = RotateLeft(pre.blocked)
    /\ runnableQueue = pre.runnable
    /\ parallelProcesses = pre.parallel
    /\ finishedProcesses = pre.finished

\* C8 witness: a retry rotated a Blocked queue of two different pids.
C8_Witness ==
  /\ ubFree
  /\ last.op = "resumeRetry"
  /\ last.status = "ok"
  /\ IsFront(pre.blocked, last.pid)
  /\ Len(pre.blocked) >= 2
  /\ blockedQueue # pre.blocked

\* C9: resumeRetry(pid) with pid not the front of Blocked (Blocked empty
\* included) throws and leaves the four collections as they were.
C9_ResumeRetryRejection ==
  (last.op = "resumeRetry" /\ ~IsFront(pre.blocked, last.pid)) =>
    (last.status = "throw" /\ State = pre)

\* C10: in a round of resumeRetry(getNextBlocked()) calls on n distinct
\* blocked pids every call succeeds, the i-th call targets the i-th pid of
\* the original order, after n calls Blocked is in its original order, and
\* call n+1 targets the original front.
C10_RoundRobin ==
  LET n == Len(rrOrig) IN
  /\ rrFronts # <<>> => (last.op = "resumeRetry" /\ last.status = "ok")
  /\ Len(blockedQueue) = n
  /\ \A i \in 1..Len(rrFronts) : i <= n => rrFronts[i] = rrOrig[i]
  /\ Len(rrFronts) = n => blockedQueue = rrOrig
  /\ Len(rrFronts) = n + 1 => rrFronts[n + 1] = rrOrig[1]

\* C10 witness: a round on three or more blocked pids went all the way
\* round and the call after it was made.
C10_Witness ==
  /\ Len(rrOrig) >= 3
  /\ Len(rrFronts) = Len(rrOrig) + 1
  /\ last.status = "ok"
  /\ blockedQueue = RotateLeft(rrOrig)

\* C11: preemptSyscall(pid) with pid the front of Runnable succeeds, pops
\* that front, appends pid behind every pid already in Blocked and leaves
\* Parallel and Finished as they were.
C11_PreemptSuccess ==
  (last.op = "preemptSyscall" /\ IsFront(pre.runnable, last.pid)) =>
    /\ last.status = "ok"
    /\ runnableQueue = Tail(pre.runnable)
    /\ blockedQueue = pre.blocked \o <<last.pid>>
    /\ parallelProcesses = pre.parallel
    /\ finishedProcesses = pre.finished

\* C11 witness: the front of a two-element Runnable was preempted behind
\* another pid already blocked.
C11_Witness ==
  /\ ubFree
  /\ last.op = "preemptSyscall"
  /\ last.status = "ok"
  /\ IsFront(pre.runnable, last.pid)
  /\ Len(pre.runnable) >= 2
  /\ pre.blocked # <<>>
  /\ Head(pre.blocked) # last.pid

\* q without any occurrence of pid, the rest in its order.
Without(q, pid) == SelectSeq(q, LAMBDA x : x # pid)

\* q without its first occurrence of pid, the rest in its order.
WithoutFirst(q, pid) ==
  IF pid \notin Elems(q) THEN q
  ELSE LET i == CHOOSE k \in 1..Len(q) : q[k] = pid /\ \A j \in 1..(k - 1) : q[j] # pid
       IN  SubSeq(q, 1, i - 1) \o SubSeq(q, i + 1, Len(q))

\* C12: removeFromScheduler(pid) returns without error, puts pid in Finished
\* and leaves in Parallel, Runnable and Blocked exactly their elements other
\* than pid, the queues in their previous order (so a pid in no live
\* collection changes none of them).
C12_RemovePreservesOrder ==
  (ubFree /\ last.op = "removeFromScheduler") =>
    /\ last.status = "ok"
    /\ finishedProcesses = pre.finished \cup {last.pid}
    /\ parallelProcesses = pre.parallel \ {last.pid}
    /\ runnableQueue = Without(pre.runnable, last.pid)
    /\ blockedQueue = Without(pre.blocked, last.pid)

\* C13: removeFromScheduler(pid) removes pid from the first of Parallel,
\* Blocked, Runnable that holds it and leaves the collections after that one
\* as they were, also when they hold pid.
C13_RemoveFirstMatchOnly ==
  (ubFree /\ last.op = "removeFromScheduler") =>
    IF last.pid \in pre.parallel
    THEN /\ parallelProcesses = pre.parallel \ {last.pid}
         /\ blockedQueue = pre.blocked
         /\ runnableQueue = pre.runnable
    ELSE IF last.pid \in Elems(pre.blocked)
    THEN /\ parallelProcesses = pre.parallel
         /\ blockedQueue = WithoutFirst(pre.blocked, last.pid)
         /\ runnableQueue = pre.runnable
    ELSE /\ parallelProcesses = pre.parallel
         /\ blockedQueue = pre.blocked
         /\ runnableQueue = WithoutFirst(pre.runnable, last.pid)

\* The collections after each call of the lifecycle of root pid p.
LifeConstructed(p) ==
  [parallel |-> {p}, runnable |-> <<>>, blocked |-> <<>>, finished |-> {}]
LifeRunnable(p) ==
  [parallel |-> {}, runnable |-> <<p>>, blocked |-> <<>>, finished |-> {}]
LifeBlocked(p) ==
  [parallel |-> {}, runnable |-> <<>>, blocked |-> <<p>>, finished |-> {}]
LifeFinished(p) ==
  [parallel |-> {}, runnable |-> <<>>, blocked |-> <<>>, finished |-> {p}]

\* C14: the scheduler is constructed with Parallel = {P} and the rest empty,
\* and each call of addToRunnableQueue(P), preemptSyscall(P),
\* resumeParallel(P), removeFromScheduler(P), made on the state the call
\* before it left, succeeds and leaves the next state of the lifecycle; on
\* the last of them isFinished(P) and emptyScheduler() return true.
C14_Lifecycle ==
  LET P == startingPid
      called(op, from) == last.op = op /\ last.pid = P /\ pre = from
  IN  /\ last.op = "scheduler" => State = LifeConstructed(P)
      /\ called("addToRunnableQueue", LifeConstructed(P)) =>
           (last.status = "ok" /\ State = LifeRunnable(P))
      /\ called("preemptSyscall", LifeRunnable(P)) =>
           (last.status = "ok" /\ State = LifeBlocked(P))
      /\ called("resumeParallel", LifeBlocked(P)) =>
           (last.status = "ok" /\ State = LifeConstructed(P))
      /\ called("removeFromScheduler", LifeConstructed(P)) =>
           (last.status = "ok" /\ State = LifeFinished(P))
      /\ called("isFinished", LifeFinished(P)) => last.bool
      /\ (last.op = "emptyScheduler" /\ pre = LifeFinished(P)) => last.bool

\* C15: emptyScheduler() returns true exactly when Parallel, Runnable and
\* Blocked are all empty, whatever Finished holds.
C15_Emptiness ==
  last.op = "emptyScheduler" =>
    /\ last.status = "ok"
    /\ last.bool = (pre.parallel = {} /\ pre.runnable = <<>> /\ pre.blocked = <<>>)

\* C15 witness: emptyScheduler() returned true with only Finished non-empty.
C15_Witness ==
  /\ ubFree
  /\ last.op = "emptyScheduler"
  /\ last.bool
  /\ pre.finished # {}
  /\ pre.parallel = {} /\ pre.runnable = <<>> /\ pre.blocked = <<>>

\* C16: getNextRunnable() / getNextBlocked() return the front of a non-empty
\* queue and -1 without an error for an empty one, and no tracked pid is -1.
C16_Sentinel ==
  /\ last.op = "getNextRunnable" =>
       /\ last.status = "ok"
       /\ last.num = (IF pre.runnable = <<>> THEN -1 ELSE pre.runnable[1])
  /\ last.op = "getNextBlocked" =>
       /\ last.status = "ok"
       /\ last.num = (IF pre.blocked = <<>> THEN -1 ELSE pre.blocked[1])
  /\ \A pid \in parallelProcesses \cup Elems(runnableQueue) \cup Elems(blockedQueue)
                 \cup finishedProcesses : pid > 0 /\ pid # NoPid

\* C16 witness: getNextBlocked() answered -1 while Runnable had a front.
C16_Witness ==
  /\ ubFree
  /\ last.op = "getNextBlocked"
  /\ last.num = NoPid
  /\ pre.blocked = <<>>
  /\ pre.runnable # <<>>

\* C17: printProcesses() leaves the four collections, queue order included,
\* as they were.
C17_PrintPure ==
  last.op = "printProcesses" => (last.status = "ok" /\ State = pre)

\* C17 witness: a dump of a scheduler with pids in Parallel, in Blocked and
\* two of them in Runnable.
C17_Witness ==
  /\ ubFree
  /\ last.op = "printProcesses"
  /\ pre.parallel # {}
  /\ Len(pre.runnable) >= 2
  /\ pre.blocked # <<>>
  /\ last.num = Cardinality(pre.parallel) + Len(pre.runnable) + Len(pre.blocked)

\* a's first occurrence in q stands before b's first occurrence.
Before(q, a, b) ==
  \E i \in 1..Len(q) :
    /\ q[i] = a
    /\ \A j \in 1..(i - 1) : q[j] # a /\ q[j] # b
    /\ \E k \in (i + 1)..Len(q) : q[k] = b

NoDuplicate(q) == \A i, j \in 1..Len(q) : q[i] = q[j] => i = j

\* C19: as long as every call so far had defined behaviour, no pid occurs
\* twice in Runnable or twice in Blocked, and numberRunnable() and
\* numberBlocked() return the number of distinct pids queued.
C19_NoDuplicates ==
  ubFree =>
    /\ NoDuplicate(runnableQueue)
    /\ NoDuplicate(blockedQueue)
    /\ last.op = "numberRunnable" => last.num = Cardinality(Elems(pre.runnable))
    /\ last.op = "numberBlocked" => last.num = Cardinality(Elems(pre.blocked))

\* C20: when removeFromScheduler(pid) has returned, pid is in none of
\* Parallel, Runnable and Blocked, is in Finished, and is the front of
\* neither queue.
C20_RemovedNotScheduled ==
  (ubFree /\ last.op = "removeFromScheduler") =>
    /\ last.status = "ok"
    /\ ~Live(State, last.pid)
    /\ last.pid \in finishedProcesses
    /\ NextOf(runnableQueue) # last.pid
    /\ NextOf(blockedQueue) # last.pid

====
